---- MODULE Spec2Model ----
(***************************************************************************)
(* Model of the icon build utilities (src/unnamed/part_000): the SVG       *)
(* abstract-tree builder (normalizeNode, generateAbstractTree), the theme  *)
(* naming functions (getIdentifier, withSuffix, theseShouldBeWithTheme)    *)
(* and the rollback lookup (getRollbackTheme).                              *)
(*                                                                         *)
(* JavaScript strings whose content the code inspects or builds (viewBox   *)
(* values, icon names, derived names) are sequences of one-character       *)
(* strings.  Enumeration-like strings (tag names, themes, error names) are *)
(* TLA+ strings.                                                           *)
(***************************************************************************)
EXTENDS Integers, Sequences, FiniteSets, TLC

VARIABLES
  call,    \* the call being made: the function and its arguments
  pc,      \* "call" before the call, "loop" inside getRollbackTheme, "done" after
  result,  \* Pending, or what the call returned or threw
  fs,      \* the file system: what fs.accessSync meets at each path
  paths,   \* getRollbackTheme's local `paths`
  i        \* the position of getRollbackTheme's loop in `paths`

vars == <<call, pc, result, fs, paths, i>>

(***************************************************************************)
(* Bounds of the explored inputs.                                          *)
(***************************************************************************)
\* Largest number of nodes below the root of an input tree.
MaxNodes == 3
\* Longest base name of an icon.
MaxNameLen == 3
\* Longest list passed to getRollbackTheme / theseShouldBeWithTheme.
MaxList == 3

(***************************************************************************)
(* JavaScript values.                                                      *)
(***************************************************************************)
\* A missing property (node.tagName of a non-element node, an omitted argument).
Undefined == "<undefined>"
\* The null node.
Null == [null |-> TRUE]
\* The result of a call that has not returned yet.
Pending == [pending |-> TRUE]

\* `return v`.
Return(v) == [ret |-> v]
\* `throw new TypeError(message)`.
ThrowTypeError(message) == [name |-> "TypeError", message |-> message]
\* `throw new Error(message)`.
ThrowError(message) == [name |-> "Error", message |-> message]

IsReturn(r) == DOMAIN r = {"ret"}
IsThrow(r) == "name" \in DOMAIN r

\* Number.parseInt yields a number or NaN.
NaN == [nan |-> TRUE, val |-> 0]
Num(n) == [nan |-> FALSE, val |-> n]

(***************************************************************************)
(* Strings.                                                                *)
(***************************************************************************)
Digits == {"0", "1", "2", "3", "4", "5", "6", "7", "8", "9"}

DigitVal(c) ==
  CASE c = "0" -> 0 [] c = "1" -> 1 [] c = "2" -> 2 [] c = "3" -> 3
    [] c = "4" -> 4 [] c = "5" -> 5 [] c = "6" -> 6 [] c = "7" -> 7
    [] c = "8" -> 8 [] c = "9" -> 9

\* All strings over alphabet of length at most n.
StringsUpTo(alphabet, n) == UNION {[1..k -> alphabet] : k \in 0..n}

\* String.prototype.split(sep) for a one-character separator: the pieces
\* between the separators, empty pieces kept; "" splits into [""].
RECURSIVE SplitFrom(_, _, _)
SplitFrom(str, sep, cur) ==
  IF str = <<>> THEN <<cur>>
  ELSE IF Head(str) = sep THEN <<cur>> \o SplitFrom(Tail(str), sep, <<>>)
  ELSE SplitFrom(Tail(str), sep, Append(cur, Head(str)))

Split(str, sep) == SplitFrom(str, sep, <<>>)

\* Array.prototype.slice(n): the elements from index n (0-based) on.
Slice(arr, n) == IF Len(arr) <= n THEN <<>> ELSE SubSeq(arr, n + 1, Len(arr))

RECURSIVE StripLeadingSpace(_)
StripLeadingSpace(str) ==
  IF str # <<>> /\ Head(str) = " " THEN StripLeadingSpace(Tail(str)) ELSE str

RECURSIVE DigitPrefix(_)
DigitPrefix(str) ==
  IF str # <<>> /\ Head(str) \in Digits
    THEN <<Head(str)>> \o DigitPrefix(Tail(str))
    ELSE <<>>

RECURSIVE DecimalValue(_)
DecimalValue(ds) ==
  IF ds = <<>> THEN 0
  ELSE 10 * DecimalValue(SubSeq(ds, 1, Len(ds) - 1)) + DigitVal(ds[Len(ds)])

\* Number.parseInt(str, 10): leading white space is skipped, an optional sign
\* is read, then the longest prefix of decimal digits; what follows the digits
\* is ignored; no digit at all gives NaN.
ParseInt(str) ==
  LET s == StripLeadingSpace(str)
      signed == s # <<>> /\ Head(s) \in {"+", "-"}
      body == IF signed THEN Tail(s) ELSE s
      ds == DigitPrefix(body)
  IN IF ds = <<>> THEN NaN
     ELSE Num(IF signed /\ Head(s) = "-" THEN 0 - DecimalValue(ds) ELSE DecimalValue(ds))

\* `${value}` of a number, of NaN.
NumberText(v) == IF v.nan THEN "NaN" ELSE ToString(v.val)

\* `${arr[k]}` (0-based): "undefined" beyond the end.
ElementText(arr, k) == IF k + 1 <= Len(arr) THEN NumberText(arr[k + 1]) ELSE "undefined"

\* `${debugName}`.
Text(v) == IF v = Undefined THEN "undefined" ELSE v

(***************************************************************************)
(* The parsed document: nodes with nodeName, tagName, attrs (a sequence of *)
(* name/value pairs) and childNodes.  An element's nodeName is its tag     *)
(* name; a non-element node (text, comment) has no tagName.                *)
(***************************************************************************)
Attr(name, value) == [name |-> name, value |-> value]

\* `!tag`: undefined and the empty string are falsy.
Falsy(tag) == tag = Undefined \/ tag = ""

\* The least element of a non-empty set of integers.
Least(S) == CHOOSE k \in S : \A m \in S : k <= m

(***************************************************************************)
(* normalizeNode                                                           *)
(***************************************************************************)
\* node.attrs.reduce(...): Object.defineProperty(acc, name, {value, enumerable})
\* creates a read-only, non-configurable property; defining it again with
\* another value throws, with the same value it changes nothing.
RECURSIVE ReduceAttrs(_, _)
ReduceAttrs(attrs, acc) ==
  IF attrs = <<>> THEN Return(acc)
  ELSE LET a == Head(attrs)
       IN IF a.name \in DOMAIN acc /\ acc[a.name] # a.value
            THEN ThrowTypeError(<<"Cannot redefine property: ", a.name>>)
            ELSE ReduceAttrs(Tail(attrs),
                             IF a.name \in DOMAIN acc THEN acc ELSE acc @@ (a.name :> a.value))

\* Variant: the tag check left out.
TagMissingNever(node) == FALSE

\* The tag check of normalizeNode (lines 10-13).
TagMissing(node) == Falsy(node.tagName)

\* Variant: style children are left out of the output.
RECURSIVE NormalizeNodeSkipStyle(_, _)
NormalizeNodeSkipStyle(node, debugName) ==
  IF TagMissing(node)
    THEN ThrowTypeError(<<Text(debugName), " Element should have no no-tag node">>)
    ELSE LET attrs == ReduceAttrs(node.attrs, <<>>)
             kept == SelectSeq(node.childNodes, LAMBDA c : c.nodeName # "style")
             kids == [k \in 1..Len(kept) |-> NormalizeNodeSkipStyle(kept[k], debugName)]
             failed == {k \in 1..Len(kept) : IsThrow(kids[k])}
         IN IF IsThrow(attrs) THEN attrs
            ELSE IF failed # {} THEN kids[Least(failed)]
            ELSE Return([tag |-> node.tagName,
                         attrs |-> attrs.ret,
                         children |-> [k \in 1..Len(kept) |-> kids[k].ret]])

\* Variant: the children come out in reverse order.
RECURSIVE NormalizeNodeReversed(_, _)
NormalizeNodeReversed(node, debugName) ==
  IF TagMissing(node)
    THEN ThrowTypeError(<<Text(debugName), " Element should have no no-tag node">>)
    ELSE LET n == Len(node.childNodes)
             attrs == ReduceAttrs(node.attrs, <<>>)
             kids == [k \in 1..n |->
                        NormalizeNodeReversed(node.childNodes[n + 1 - k], debugName)]
             failed == {k \in 1..n : IsThrow(kids[k])}
         IN IF IsThrow(attrs) THEN attrs
            ELSE IF failed # {} THEN kids[Least(failed)]
            ELSE Return([tag |-> node.tagName,
                         attrs |-> attrs.ret,
                         children |-> [k \in 1..n |-> kids[k].ret]])

RECURSIVE NormalizeNode(_, _)
NormalizeNode(node, debugName) ==
  IF TagMissing(node)
    THEN ThrowTypeError(<<Text(debugName), " Element should have no no-tag node">>)
    ELSE LET attrs == ReduceAttrs(node.attrs, <<>>)
             kids == [k \in 1..Len(node.childNodes) |->
                        NormalizeNode(node.childNodes[k], debugName)]
             failed == {k \in 1..Len(node.childNodes) : IsThrow(kids[k])}
         IN IF IsThrow(attrs) THEN attrs
            ELSE IF failed # {} THEN kids[Least(failed)]
            ELSE Return([tag |-> node.tagName,
                         attrs |-> attrs.ret,
                         children |-> [k \in 1..Len(node.childNodes) |-> kids[k].ret]])

(***************************************************************************)
(* generateAbstractTree                                                    *)
(***************************************************************************)
\* assert(value, message) with a falsy value: an AssertionError whose message
\* is the one given, or a generated one when none is given, and whose
\* `actual` is the value.
AssertionError(actual, message) ==
  [name |-> "AssertionError",
   message |-> IF message = Undefined
                 THEN <<"The expression evaluated to a falsy value">>
                 ELSE <<message>>,
   generatedMessage |-> (message = Undefined),
   actual |-> actual]

\* node.attrs.find(({ name }) => name === 'viewBox'): the first such attribute.
FindViewBox(attrs) ==
  LET hits == {k \in 1..Len(attrs) : attrs[k].name = "viewBox"}
  IN IF hits = {} THEN Undefined ELSE attrs[Least(hits)].value

HasViewBox(attrs) == \E k \in 1..Len(attrs) : attrs[k].name = "viewBox"

\* viewBox.value.split(' ').slice(2).map((str) => Number.parseInt(str, 10))
SizeOf(value) ==
  LET tail == Slice(Split(value, " "), 2)
  IN [k \in 1..Len(tail) |-> ParseInt(tail[k])]

\* size.length === 2
SizeOk(size) == Len(size) = 2

\* Variant: the size assertion carries the bare debug name like the others.
SizeMessagePlain(size, debugName) == <<Text(debugName)>>

\* The message of the size assertion (lines 47-49).
SizeMessage(size, debugName) ==
  <<"The size tuple should be [ width, height ], but got [ ",
    ElementText(size, 0), ", ", ElementText(size, 1), " ] [", Text(debugName), "]">>

\* Variant: the filter keeps every child that is not a style element.
OneLevelPathNodesNoLeafTest(childNodes) ==
  SelectSeq(childNodes, LAMBDA c : c.nodeName # "style")

\* The filter of lines 51-54.
OneLevelPathNodes(childNodes) ==
  SelectSeq(childNodes, LAMBDA c : c.nodeName # "style" /\ Len(c.childNodes) = 0)

GenerateAbstractTree(node, debugName) ==
  IF node = Null THEN AssertionError("null", debugName)
  ELSE IF node.tagName # "svg" THEN AssertionError("false", debugName)
  ELSE IF ~HasViewBox(node.attrs) THEN AssertionError("undefined", debugName)
  ELSE LET size == SizeOf(FindViewBox(node.attrs))
       IN IF ~SizeOk(size)
            THEN [name |-> "AssertionError",
                  message |-> SizeMessage(size, debugName),
                  generatedMessage |-> FALSE,
                  actual |-> "false"]
          ELSE IF ~(Len(OneLevelPathNodes(node.childNodes)) >= 1)
            THEN AssertionError("false", debugName)
          ELSE NormalizeNode(node, debugName)

(***************************************************************************)
(* Input documents.                                                        *)
(***************************************************************************)
ViewBoxGood == <<"0", " ", "0", " ", "1", "0", " ", "2", "4">>
ViewBoxNaN == <<"0", " ", "0", " ", "a", " ", "b">>
ViewBoxShort == <<"0", " ", "0", " ", "8">>
ViewBoxLong == <<"0", " ", "0", " ", "1", " ", "2", " ", "3">>
PathData == <<"M", "0">>
FillValue == <<"r", "e", "d">>

\* Attribute lists of the root in the tree runs: no viewBox, a good one, ones
\* with a tail of non-numbers, of one token, of three tokens, and a viewBox
\* before and after another attribute.
RootAttrLists ==
  { <<>>,
    <<Attr("fill", FillValue)>>,
    <<Attr("viewBox", ViewBoxGood)>>,
    <<Attr("viewBox", ViewBoxNaN)>>,
    <<Attr("viewBox", ViewBoxShort)>>,
    <<Attr("viewBox", ViewBoxLong)>>,
    <<Attr("fill", FillValue), Attr("viewBox", ViewBoxGood)>>,
    <<Attr("viewBox", ViewBoxGood), Attr("fill", FillValue)>> }

\* A node without its children: [nodeName, tagName, attrs].
Shell(nodeName, tagName, attrs) ==
  [nodeName |-> nodeName, tagName |-> tagName, attrs |-> attrs]

WithChildren(shell, kids) ==
  [nodeName |-> shell.nodeName, tagName |-> shell.tagName,
   attrs |-> shell.attrs, childNodes |-> kids]

DescendantShells ==
  { Shell("path", "path", <<>>),
    Shell("path", "path", <<Attr("d", PathData)>>),
    Shell("style", "style", <<>>),
    Shell("#text", Undefined, <<>>) }

RootShells ==
  {Shell("svg", "svg", a) : a \in RootAttrLists}
    \cup { Shell("path", "path", <<Attr("viewBox", ViewBoxGood)>>),
           Shell("#text", Undefined, <<Attr("viewBox", ViewBoxGood)>>),
           Shell("", "", <<Attr("viewBox", ViewBoxGood)>>) }

\* The forests (sequences of trees) of exactly n nodes, and the trees of
\* exactly n nodes, over the descendant shells.
RECURSIVE ForestsOfSize(_)
ForestsOfSize(n) ==
  IF n = 0 THEN {<<>>}
  ELSE UNION { { <<WithChildren(s, kids)>> \o rest :
                   s \in DescendantShells,
                   kids \in ForestsOfSize(k - 1),
                   rest \in ForestsOfSize(n - k) } : k \in 1..n }

Forests(n) == UNION {ForestsOfSize(k) : k \in 0..n}

DebugNames == {"close-o.svg", "up-fill.svg", Undefined}

(***************************************************************************)
(* The tree builder as a state machine: a call is pending, then done.      *)
(***************************************************************************)
\* A call of generateAbstractTree (on a root or on null) or of normalizeNode
\* (on a root) is about to be made.
InitTree ==
  /\ \/ \E s \in RootShells, kids \in Forests(MaxNodes), d \in DebugNames,
           f \in {"generateAbstractTree", "normalizeNode"} :
          call = [fn |-> f, node |-> WithChildren(s, kids), debugName |-> d]
     \/ \E d \in DebugNames :
          call = [fn |-> "generateAbstractTree", node |-> Null, debugName |-> d]
  /\ pc = "call"
  /\ result = Pending
  /\ fs = <<>>
  /\ paths = <<>>
  /\ i = 0

GenerateAbstractTreeCall ==
  /\ pc = "call"
  /\ call.fn = "generateAbstractTree"
  /\ result' = GenerateAbstractTree(call.node, call.debugName)
  /\ pc' = "done"
  /\ UNCHANGED <<call, fs, paths, i>>

NormalizeNodeCall ==
  /\ pc = "call"
  /\ call.fn = "normalizeNode"
  /\ result' = NormalizeNode(call.node, call.debugName)
  /\ pc' = "done"
  /\ UNCHANGED <<call, fs, paths, i>>

NextTree == GenerateAbstractTreeCall \/ NormalizeNodeCall

SpecTree == InitTree /\ [][NextTree]_vars

(***************************************************************************)
(* Vocabulary of the properties of the tree builder.                       *)
(***************************************************************************)
Done(f) == pc = "done" /\ call.fn = f

\* Every node of the input tree has a tag name.
RECURSIVE AllTagged(_)
AllTagged(node) ==
  /\ node.tagName # Undefined
  /\ node.tagName # ""
  /\ \A k \in 1..Len(node.childNodes) : AllTagged(node.childNodes[k])

\* A drawable leaf: not a style element, and no children.
DrawableLeaf(child) == child.tagName # "style" /\ Len(child.childNodes) = 0

HasDrawableLeaf(node) ==
  \E k \in 1..Len(node.childNodes) : DrawableLeaf(node.childNodes[k])

\* The tokens of a viewBox value after minX and minY, the value being cut at
\* its single spaces.
TailTokens(value) == Slice(Split(value, " "), 2)

\* The tail is two tokens and each parses as a base-10 integer.
NumericTail(value) ==
  /\ Len(TailTokens(value)) = 2
  /\ \A k \in 1..2 : ~ParseInt(TailTokens(value)[k]).nan

\* The number of tokens of the tail that parse as a base-10 integer.
ParsedCount(value) ==
  Cardinality({k \in 1..Len(TailTokens(value)) : ~ParseInt(TailTokens(value)[k]).nan})

\* The first of the five preconditions of generateAbstractTree that the root
\* fails (0: none), the fourth as the code decides it: the tail has two tokens.
FailedPrecondition(node) ==
  IF node = Null THEN 1
  ELSE IF node.tagName # "svg" THEN 2
  ELSE IF ~HasViewBox(node.attrs) THEN 3
  ELSE IF Len(TailTokens(FindViewBox(node.attrs))) # 2 THEN 4
  ELSE IF ~HasDrawableLeaf(node) THEN 5
  ELSE 0

IsAssertionError(r) == IsThrow(r) /\ r.name = "AssertionError"
IsTypeError(r) == IsThrow(r) /\ r.name = "TypeError"

\* The message of a thrown error has the label among its parts.
CarriesLabel(r, label) == \E k \in 1..Len(r.message) : r.message[k] = label

(***************************************************************************)
(* Properties of the tree builder (checked under SpecTree).                *)
(***************************************************************************)
\* The root of a finished generateAbstractTree call is an svg element with a
\* viewBox whose tail is two numeric tokens and with a drawable leaf child.
ValidRoot(node) ==
  /\ node # Null
  /\ node.tagName = "svg"
  /\ HasViewBox(node.attrs)
  /\ NumericTail(FindViewBox(node.attrs))
  /\ HasDrawableLeaf(node)

\* The returned tree has the root's tag, one child per source child and one
\* attribute entry per source attribute.
RootShapeKept(node, r) ==
  /\ IsReturn(r)
  /\ r.ret.tag = node.tagName
  /\ Len(r.ret.children) = Len(node.childNodes)
  /\ Cardinality(DOMAIN r.ret.attrs) = Len(node.attrs)

\* C1 as stated: for every svg root with a viewBox whose tail is two numeric
\* tokens and with at least one drawable leaf child, generateAbstractTree
\* returns a tree with the root's tag, as many children as the root has and one
\* attribute entry per source attribute.
C1_AsStated ==
  Done("generateAbstractTree") /\ ValidRoot(call.node)
    => RootShapeKept(call.node, result)

\* C1 amended: the same, for the roots in which moreover every node at every
\* depth has a tag name.
C1_ValidRootGivesTree ==
  Done("generateAbstractTree") /\ ValidRoot(call.node) /\ AllTagged(call.node)
    => RootShapeKept(call.node, result)

\* A valid, fully tagged root with two children and two attributes was built.
C1_Witness ==
  /\ Done("generateAbstractTree")
  /\ ValidRoot(call.node) /\ AllTagged(call.node)
  /\ Len(call.node.childNodes) = 2
  /\ Len(call.node.attrs) = 2
  /\ IsReturn(result)

\* C2 as stated: a root without a viewBox, or whose viewBox tail holds 0, 1 or
\* 3 and more tokens that parse as base-10 integers, makes
\* generateAbstractTree fail: no tree is returned.
C2_AsStated ==
  /\ Done("generateAbstractTree")
  /\ call.node # Null
  /\ \/ ~HasViewBox(call.node.attrs)
     \/ ParsedCount(FindViewBox(call.node.attrs)) # 2
  => ~IsReturn(result)

\* The root passes the first four checks of generateAbstractTree.
PassesFirstFour(node) ==
  /\ node # Null
  /\ node.tagName = "svg"
  /\ HasViewBox(node.attrs)
  /\ Len(TailTokens(FindViewBox(node.attrs))) = 2

\* C3: a root whose children are all style elements or non-leaves (or that has
\* no child) makes generateAbstractTree fail with an assertion error, and the
\* drawable-leaf check passes exactly when some direct child is not a style
\* element and has no children.
C3_NoDrawableLeafFails ==
  Done("generateAbstractTree") /\ call.node # Null
    => /\ ~HasDrawableLeaf(call.node) => IsAssertionError(result)
       /\ PassesFirstFour(call.node)
            => (IsAssertionError(result) <=> ~HasDrawableLeaf(call.node))

\* A root that passes the first four checks and has children, none of them a
\* drawable leaf, was rejected.
C3_Witness ==
  /\ Done("generateAbstractTree")
  /\ PassesFirstFour(call.node)
  /\ Len(call.node.childNodes) >= 2
  /\ ~HasDrawableLeaf(call.node)
  /\ \E k \in 1..Len(call.node.childNodes) :
       call.node.childNodes[k].tagName # "style"
  /\ IsAssertionError(result)

\* One root failing each precondition first.
ProbeRoots ==
  { Null,
    [nodeName |-> "path", tagName |-> "path",
     attrs |-> <<Attr("viewBox", ViewBoxGood)>>, childNodes |-> <<>>],
    [nodeName |-> "svg", tagName |-> "svg", attrs |-> <<>>, childNodes |-> <<>>],
    [nodeName |-> "svg", tagName |-> "svg",
     attrs |-> <<Attr("viewBox", ViewBoxShort)>>, childNodes |-> <<>>],
    [nodeName |-> "svg", tagName |-> "svg",
     attrs |-> <<Attr("viewBox", ViewBoxGood)>>, childNodes |-> <<>>] }

\* C7 as stated: the error of a failed precondition carries the debug label
\* and differs from the error any of the other four preconditions raises
\* (for the same label).
C7_AsStated ==
  Done("generateAbstractTree") /\ call.debugName # Undefined
      /\ FailedPrecondition(call.node) # 0
    => /\ IsAssertionError(result)
       /\ CarriesLabel(result, call.debugName)
       /\ \A r \in ProbeRoots :
            FailedPrecondition(r) # FailedPrecondition(call.node)
              => GenerateAbstractTree(r, call.debugName) # result

\* C7 amended: every failed precondition raises an assertion error whose
\* message carries the debug label; the message of the size failure (4) differs
\* from the message of each of the other four, and the messages of the other
\* four are the bare label, so alike.
C7_LabelledErrors ==
  Done("generateAbstractTree") /\ call.debugName # Undefined
      /\ FailedPrecondition(call.node) # 0
    => /\ IsAssertionError(result)
       /\ CarriesLabel(result, call.debugName)
       /\ \A r \in ProbeRoots :
            LET other == GenerateAbstractTree(r, call.debugName)
                p == FailedPrecondition(call.node)
                q == FailedPrecondition(r)
            IN /\ (p = 4) # (q = 4) => other.message # result.message
               /\ p # 4 /\ q # 4 => other.message = result.message

\* A size failure and a drawable-leaf failure were each raised with a label.
C7_Witness ==
  /\ Done("generateAbstractTree")
  /\ call.debugName # Undefined
  /\ FailedPrecondition(call.node) = 4
  /\ Len(call.node.childNodes) >= 1
  /\ IsAssertionError(result)

\* The output node has the input node's tag, its attributes by name, and as
\* its k-th child the normalization of the input's k-th child, at every depth.
RECURSIVE StructureKept(_, _, _)
StructureKept(node, out, debugName) ==
  /\ out.tag = node.tagName
  /\ DOMAIN out.attrs = {node.attrs[k].name : k \in 1..Len(node.attrs)}
  /\ \A k \in 1..Len(node.attrs) : out.attrs[node.attrs[k].name] = node.attrs[k].value
  /\ Len(out.children) = Len(node.childNodes)
  /\ \A k \in 1..Len(node.childNodes) :
       /\ Return(out.children[k]) = NormalizeNode(node.childNodes[k], debugName)
       /\ StructureKept(node.childNodes[k], out.children[k], debugName)

\* C8: normalizeNode preserves structure at every depth: on a tree whose nodes
\* all have a tag name, the output has at each position the input's tag, its
\* children in source order (none dropped, duplicated or reordered) and its
\* attributes by name.
C8_StructurePreserved ==
  Done("normalizeNode") /\ AllTagged(call.node)
    => /\ IsReturn(result)
       /\ StructureKept(call.node, result.ret, call.debugName)

\* A tree with two different children, one of them with a child of its own,
\* was normalized.
C8_Witness ==
  /\ Done("normalizeNode")
  /\ AllTagged(call.node)
  /\ Len(call.node.childNodes) = 2
  /\ call.node.childNodes[1].tagName # call.node.childNodes[2].tagName
  /\ Len(call.node.childNodes[1].childNodes) = 1
  /\ Len(call.node.attrs) = 2
  /\ IsReturn(result)

\* Every node of an output tree has a non-empty tag.
RECURSIVE OutputTagged(_)
OutputTagged(out) ==
  /\ out.tag # Undefined
  /\ out.tag # ""
  /\ \A k \in 1..Len(out.children) : OutputTagged(out.children[k])

\* C9: a node without a tag name at any depth makes normalizeNode, and
\* generateAbstractTree on a root that passes the five preconditions, throw
\* instead of returning a partial tree; every node of a returned tree has a
\* non-empty tag.
C9_NoTagIsFatal ==
  (Done("normalizeNode") \/ Done("generateAbstractTree")) /\ call.node # Null
    => /\ ~AllTagged(call.node) => IsThrow(result)
       /\ IsReturn(result) => OutputTagged(result.ret)

\* A root passing the five preconditions thanks to a tagless leaf child was
\* rejected by normalizeNode's tag check.
C9_Witness ==
  /\ Done("generateAbstractTree")
  /\ FailedPrecondition(call.node) = 0
  /\ \E k \in 1..Len(call.node.childNodes) :
       /\ call.node.childNodes[k].tagName = Undefined
       /\ DrawableLeaf(call.node.childNodes[k])
  /\ \A k \in 1..Len(call.node.childNodes) :
       DrawableLeaf(call.node.childNodes[k]) => call.node.childNodes[k].tagName = Undefined
  /\ IsTypeError(result)

(***************************************************************************)
(* Theme naming: getIdentifier, withSuffix, theseShouldBeWithTheme.        *)
(***************************************************************************)
Themes == {"fill", "outline", "twotone"}

\* Variant: an unknown theme leaves the identifier as it is.
GetIdentifierLenient(identifier, theme) ==
  CASE theme = "fill" -> Return(identifier \o <<"F", "i", "l", "l">>)
    [] theme = "outline" -> Return(identifier \o <<"O", "u", "t", "l", "i", "n", "e">>)
    [] theme = "twotone" -> Return(identifier \o <<"T", "w", "o", "T", "o", "n", "e">>)
    [] OTHER -> Return(identifier)

GetIdentifier(identifier, theme) ==
  CASE theme = "fill" -> Return(identifier \o <<"F", "i", "l", "l">>)
    [] theme = "outline" -> Return(identifier \o <<"O", "u", "t", "l", "i", "n", "e">>)
    [] theme = "twotone" -> Return(identifier \o <<"T", "w", "o", "T", "o", "n", "e">>)
    [] OTHER -> ThrowTypeError(<<"Unknown theme type: ", Text(theme), ", identifier: ", identifier>>)

\* Variant: the outline suffix made regular.
WithSuffixRegular(name, theme) ==
  CASE theme = "fill" -> Return(name \o <<"-", "f", "i", "l", "l">>)
    [] theme = "outline" -> Return(name \o <<"-", "o", "u", "t", "l", "i", "n", "e">>)
    [] theme = "twotone" -> Return(name \o <<"-", "t", "w", "o", "t", "o", "n", "e">>)
    [] OTHER -> ThrowTypeError(<<"Unknown theme type: ", Text(theme), ", name: ", name>>)

\* Variant: twotone gets the outline suffix.
WithSuffixTwotoneAsOutline(name, theme) ==
  CASE theme = "fill" -> Return(name \o <<"-", "f", "i", "l", "l">>)
    [] theme = "outline" -> Return(name \o <<"-", "o">>)
    [] theme = "twotone" -> Return(name \o <<"-", "o">>)
    [] OTHER -> ThrowTypeError(<<"Unknown theme type: ", Text(theme), ", name: ", name>>)

WithSuffix(name, theme) ==
  CASE theme = "fill" -> Return(name \o <<"-", "f", "i", "l", "l">>)
    [] theme = "outline" -> Return(name \o <<"-", "o">>)
    [] theme = "twotone" -> Return(name \o <<"-", "t", "w", "o", "t", "o", "n", "e">>)
    [] OTHER -> ThrowTypeError(<<"Unknown theme type: ", Text(theme), ", name: ", name>>)

\* The upper-case form of a letter.
UpperChar(c) ==
  CASE c = "a" -> "A" [] c = "o" -> "O" [] c = "u" -> "U" [] c = "p" -> "P"
    [] OTHER -> c

\* _.camelCase of a kebab-case name of lower-case letters and hyphens: the
\* hyphens go, and the first letter of every word but the first is capitalized.
RECURSIVE CamelFrom(_, _, _)
CamelFrom(str, seenWord, atWordStart) ==
  IF str = <<>> THEN <<>>
  ELSE IF Head(str) = "-" THEN CamelFrom(Tail(str), seenWord, TRUE)
  ELSE <<IF seenWord /\ atWordStart THEN UpperChar(Head(str)) ELSE Head(str)>>
         \o CamelFrom(Tail(str), TRUE, FALSE)

CamelCase(str) == CamelFrom(str, FALSE, TRUE)

\* _.upperFirst
UpperFirst(str) == IF str = <<>> THEN <<>> ELSE <<UpperChar(Head(str))>> \o Tail(str)

\* The value theseShouldBeWithTheme derives for one basic name (lines 152-154).
DerivedValue(basicName, theme, isKebabCase) ==
  IF isKebabCase
    THEN WithSuffix(basicName, theme)
    ELSE GetIdentifier(UpperFirst(CamelCase(basicName)), theme)

\* basicNames.map(...).reduce(...): the first name whose derivation throws ends
\* the call; otherwise an object with one key per distinct basic name.
TheseShouldBeWithTheme(basicNames, theme, isKebabCase) ==
  LET values == [k \in 1..Len(basicNames) |-> DerivedValue(basicNames[k], theme, isKebabCase)]
      failed == {k \in 1..Len(basicNames) : IsThrow(values[k])}
      last(key) == CHOOSE k \in 1..Len(basicNames) :
                     /\ basicNames[k] = key
                     /\ \A m \in 1..Len(basicNames) : basicNames[m] = key => m <= k
  IN IF failed # {} THEN values[Least(failed)]
     ELSE Return([key \in {basicNames[k] : k \in 1..Len(basicNames)} |-> values[last(key)].ret])

\* Base names: the strings over these characters.
NameAlphabet == {"a", "o", "-"}
Names == StringsUpTo(NameAlphabet, MaxNameLen)

\* The names handed in lists to theseShouldBeWithTheme.
BatchNames == { <<"u", "p">>, <<"u", "p", "-", "o">>, <<"a", "-", "u", "p">> }
BatchLists == StringsUpTo(BatchNames, MaxList)

\* The themes callers pass: the three of the enumeration and two outside it.
PassedThemes == Themes \cup {"bogus", Undefined}

InitNaming ==
  /\ \/ \E n \in Names, t \in PassedThemes, f \in {"getIdentifier", "withSuffix"} :
          call = [fn |-> f, name |-> n, theme |-> t]
     \/ \E l \in BatchLists, t \in PassedThemes, k \in BOOLEAN :
          call = [fn |-> "theseShouldBeWithTheme", basicNames |-> l, theme |-> t,
                  isKebabCase |-> k]
  /\ pc = "call"
  /\ result = Pending
  /\ fs = <<>>
  /\ paths = <<>>
  /\ i = 0

GetIdentifierCall ==
  /\ pc = "call"
  /\ call.fn = "getIdentifier"
  /\ result' = GetIdentifier(call.name, call.theme)
  /\ pc' = "done"
  /\ UNCHANGED <<call, fs, paths, i>>

WithSuffixCall ==
  /\ pc = "call"
  /\ call.fn = "withSuffix"
  /\ result' = WithSuffix(call.name, call.theme)
  /\ pc' = "done"
  /\ UNCHANGED <<call, fs, paths, i>>

TheseShouldBeWithThemeCall ==
  /\ pc = "call"
  /\ call.fn = "theseShouldBeWithTheme"
  /\ result' = TheseShouldBeWithTheme(call.basicNames, call.theme, call.isKebabCase)
  /\ pc' = "done"
  /\ UNCHANGED <<call, fs, paths, i>>

NextNaming == GetIdentifierCall \/ WithSuffixCall \/ TheseShouldBeWithThemeCall

SpecNaming == InitNaming /\ [][NextNaming]_vars

(***************************************************************************)
(* Properties of the theme naming (checked under SpecNaming).              *)
(***************************************************************************)
\* The suffixes the specification gives for identifiers and kebab names.
IdentifierSuffix(theme) ==
  CASE theme = "fill" -> <<"F", "i", "l", "l">>
    [] theme = "outline" -> <<"O", "u", "t", "l", "i", "n", "e">>
    [] theme = "twotone" -> <<"T", "w", "o", "T", "o", "n", "e">>

KebabSuffix(theme) ==
  CASE theme = "fill" -> <<"-", "f", "i", "l", "l">>
    [] theme = "outline" -> <<"-", "o">>
    [] theme = "twotone" -> <<"-", "t", "w", "o", "t", "o", "n", "e">>

\* str is base followed by suffix and nothing else.
IsSuffixed(str, base, suffix) ==
  /\ Len(str) = Len(base) + Len(suffix)
  /\ SubSeq(str, 1, Len(base)) = base
  /\ SubSeq(str, Len(base) + 1, Len(str)) = suffix

\* C5: for each of the three themes getIdentifier returns the base identifier
\* followed by exactly Fill, Outline or TwoTone, and withSuffix the base name
\* followed by exactly -fill, -o or -twotone.
C5_ExactSuffixes ==
  /\ Done("getIdentifier") /\ call.theme \in Themes
       => /\ IsReturn(result)
          /\ IsSuffixed(result.ret, call.name, IdentifierSuffix(call.theme))
  /\ Done("withSuffix") /\ call.theme \in Themes
       => /\ IsReturn(result)
          /\ IsSuffixed(result.ret, call.name, KebabSuffix(call.theme))

\* withSuffix gave the irregular outline suffix to a name that itself ends
\* in "-o".
C5_Witness ==
  /\ Done("withSuffix")
  /\ call.theme = "outline"
  /\ call.name = <<"a", "-", "o">>
  /\ result = Return(<<"a", "-", "o", "-", "o">>)

\* C6 as stated: with a theme outside the enumeration every call of
\* getIdentifier, withSuffix and theseShouldBeWithTheme throws, whatever the
\* name or the list of names.
C6_AsStated ==
  /\ pc = "done"
  /\ call.fn \in {"getIdentifier", "withSuffix", "theseShouldBeWithTheme"}
  /\ call.theme \notin Themes
  => IsTypeError(result)

\* C6 amended: with a theme outside the enumeration every call of
\* getIdentifier and withSuffix throws an unknown-theme error, and so does
\* every call of theseShouldBeWithTheme on a list of at least one name, in
\* both modes; on the empty list theseShouldBeWithTheme returns the empty
\* mapping.
C6_UnknownThemeFatal ==
  /\ pc = "done" /\ call.fn \in {"getIdentifier", "withSuffix"} /\ call.theme \notin Themes
       => /\ IsTypeError(result)
          /\ result.message[1] = "Unknown theme type: "
          /\ result.message[2] = Text(call.theme)
  /\ Done("theseShouldBeWithTheme") /\ call.theme \notin Themes
       => IF call.basicNames = <<>>
            THEN result = Return(<<>>)
            ELSE /\ IsTypeError(result)
                 /\ result.message[1] = "Unknown theme type: "
                 /\ result.message[2] = Text(call.theme)

\* theseShouldBeWithTheme threw on a list of two names in identifier mode.
C6_Witness ==
  /\ Done("theseShouldBeWithTheme")
  /\ call.theme = "bogus"
  /\ Len(call.basicNames) = 2
  /\ ~call.isKebabCase
  /\ IsTypeError(result)

\* C10: getIdentifier and withSuffix are injective on (name, theme) pairs of
\* the three themes: no other pair yields the name a call returned.
C10_CollisionFree ==
  /\ Done("getIdentifier") /\ call.theme \in Themes
       => \A n \in Names, t \in Themes :
            GetIdentifier(n, t) = result => n = call.name /\ t = call.theme
  /\ Done("withSuffix") /\ call.theme \in Themes
       => \A n \in Names, t \in Themes :
            WithSuffix(n, t) = result => n = call.name /\ t = call.theme

\* A kebab name was derived for the twotone theme of a name ending in "-o".
C10_Witness ==
  /\ Done("withSuffix")
  /\ call.theme = "twotone"
  /\ call.name = <<"o", "-", "o">>
  /\ IsReturn(result)

(***************************************************************************)
(* Rollback lookup: getRollbackTheme.                                      *)
(***************************************************************************)
\* What fs.accessSync meets at a path: the file is there, it is not, or the
\* probe fails for another reason.
Outcomes == {"ok", "ENOENT", "EACCES"}

IconNames == {"close", "up"}

\* path.resolve(env.paths.SVG_DIR, theme, `${kebabCaseName}.svg`)
Resolve(theme, kebabCaseName) ==
  [dir |-> "SVG_DIR", theme |-> theme, file |-> <<kebabCaseName, ".svg">>]

\* Variant: only a missing file counts as a failed probe.
AccessSyncOkUnlessAbsent(fsys, url) == fsys[url] # "ENOENT"

\* fs.accessSync(url) returns (TRUE) or throws (FALSE).
AccessSyncOk(fsys, url) == fsys[url] = "ok"

\* The preference lists handed in.
RollbackLists == StringsUpTo(Themes, MaxList)

\* The source tree: for the icon looked up, any outcome at each theme's path;
\* the other icons' files are all there or all missing.
InitRollback ==
  /\ \E n \in IconNames, l \in RollbackLists :
       call = [fn |-> "getRollbackTheme", kebabCaseName |-> n, rollbackList |-> l]
  /\ \E f \in [Themes -> Outcomes], others \in {"ok", "ENOENT"} :
       fs = [u \in {Resolve(t, n) : t \in Themes, n \in IconNames} |->
               IF u.file[1] = call.kebabCaseName THEN f[u.theme] ELSE others]
  /\ pc = "call"
  /\ result = Pending
  /\ paths = <<>>
  /\ i = 0

\* Lines 102-105: the candidate paths, in the order of rollbackList.
GetRollbackThemeStart ==
  /\ pc = "call"
  /\ call.fn = "getRollbackTheme"
  /\ paths' = [k \in 1..Len(call.rollbackList) |->
                 [theme |-> call.rollbackList[k],
                  url |-> Resolve(call.rollbackList[k], call.kebabCaseName)]]
  /\ i' = 1
  /\ pc' = "loop"
  /\ UNCHANGED <<call, result, fs>>

\* Lines 106-113: one turn of the loop; a probe that throws is swallowed.
GetRollbackThemeProbe ==
  /\ pc = "loop"
  /\ i <= Len(paths)
  /\ IF AccessSyncOk(fs, paths[i].url)
       THEN /\ result' = Return(paths[i].theme)
            /\ pc' = "done"
            /\ i' = i
       ELSE /\ i' = i + 1
            /\ UNCHANGED <<result, pc>>
  /\ UNCHANGED <<call, fs, paths>>

\* Line 114: no candidate is left.
GetRollbackThemeThrow ==
  /\ pc = "loop"
  /\ i > Len(paths)
  /\ result' = ThrowError(<<"There is no SVG of the icon: ", call.kebabCaseName>>)
  /\ pc' = "done"
  /\ UNCHANGED <<call, fs, paths, i>>

NextRollback == GetRollbackThemeStart \/ GetRollbackThemeProbe \/ GetRollbackThemeThrow

SpecRollback == InitRollback /\ [][NextRollback]_vars

(***************************************************************************)
(* Properties of the rollback lookup (checked under SpecRollback).         *)
(***************************************************************************)
\* The positions of the preference list whose source file is there.
Available ==
  {k \in 1..Len(call.rollbackList) :
     fs[Resolve(call.rollbackList[k], call.kebabCaseName)] = "ok"}

\* C4: getRollbackTheme probes the candidates in the order of the list and
\* returns the first theme of the list whose file is there; a probe that fails
\* for whatever reason counts as absent; with no candidate available (or none
\* at all) it throws the error naming the icon.
C4_FirstAvailableWins ==
  /\ pc = "loop" => \A k \in 1..Len(paths) : k < i => k \notin Available
  /\ pc = "done"
       => IF Available = {}
            THEN /\ IsThrow(result)
                 /\ result.name = "Error"
                 /\ result.message = <<"There is no SVG of the icon: ", call.kebabCaseName>>
            ELSE result = Return(call.rollbackList[Least(Available)])

\* The first candidate's probe failed for lack of permission, the second's
\* file was missing, and the third theme was returned.
C4_Witness ==
  /\ pc = "done"
  /\ Len(call.rollbackList) = 3
  /\ fs[Resolve(call.rollbackList[1], call.kebabCaseName)] = "EACCES"
  /\ fs[Resolve(call.rollbackList[2], call.kebabCaseName)] = "ENOENT"
  /\ result = Return(call.rollbackList[3])

====
